---- MODULE Spec2Model ----
(***************************************************************************)
(* sageinspector, lib/logs.py: paginated access to CloudWatch log events.  *)
(*                                                                         *)
(* Spec        LogStream: iter_log_events, head, tail, cat, follow         *)
(* SpecFilter  LogStreamFilter: iter_log_events, filter, match, find       *)
(* SpecText    TextFilter: iter_log_events, filter, match, find            *)
(* SpecCli     cli/logs.py: logs tail [-f], logs cat [-f] over arn.logs    *)
(* SpecSources a LogStream or a LogStreamFilter operation                  *)
(*                                                                         *)
(* Generators are modelled at their suspension points: one action per      *)
(* stretch of code between two yields, run only while the caller pulls.    *)
(***************************************************************************)
EXTENDS Integers, Sequences, FiniteSets, TLC

\* ------------------------------------------------------------------ bounds
MaxEvents == 5      \* events a log stream can hold
MaxPage == 3        \* largest page the backend cuts its responses to
MaxArg == 4         \* largest small n / limit passed by the caller
MaxFetches == 7     \* fetches a follow loop is observed for

\* head / tail refuse n above this (assert n <= 10_000)
MaxN == 10000

VARIABLES
    op,             \* the operation called on the source
    arg,            \* head/tail: <<n>>; follow: limit, <<>> when not given
    start_at_top,   \* iter_log_events' start_at_top
    total,          \* backend: number of events the stream holds now
    pageCap,        \* backend: the most events it puts in one response
    pc,             \* outer generator: "start", "run", "done", "failed"
    gen,            \* iter_log_events: "init", "page", "idle", "loop", "done"
    token,          \* iter_log_events' local token
    response,       \* the last response of the backend
    page,           \* events of the yielded page not yet handed on
    out,            \* events handed to the caller, in order
    calls,          \* backend requests issued: <<[sub, ret, events]>>
    idles,          \* idle markers (None) yielded by iter_log_events
    sleeps,         \* time.sleep calls of follow
    pulling,        \* the caller is waiting for the next element
    err,            \* the exception that ended the operation, or "none"
    stream_names,   \* LogStreamFilter.stream_names, None or a list
    prefix,         \* LogStreamFilter.prefix, None or a text
    regex,          \* the regex given to match / find
    found,          \* backend: the events the filter pattern selects
    lead,           \* backend: empty pages it answers with first
    events_by_job,  \* the grouping built by filter / match / find
    failures,       \* requests the backend answered with an error
    text,           \* TextFilter.text
    pattern,        \* the filter pattern given to the operation
    nstreams,       \* CLI: log streams of the resource
    cur,            \* CLI: the log stream the command is at, from 1
    printed         \* CLI: lines echoed, <<stream, event>>

svars == <<op, arg, start_at_top, total, pageCap, pc, gen, token, response,
           page, out, calls, idles, sleeps, pulling, err>>
\* what only a LogStreamFilter has
fvars == <<stream_names, prefix, regex, found, lead, events_by_job>>
\* what only a TextFilter or the command line has
tvars == <<text, pattern>>
cvars == <<nstreams, cur, printed>>

\* ----------------------------------------------------------------- helpers
None == <<>>
Some(x) == <<x>>
Min(a, b) == IF a <= b THEN a ELSE b
Max(a, b) == IF a >= b THEN a ELSE b
\* the events numbered a+1 .. b, oldest first
Range(a, b) == [i \in 1..(b - a) |-> a + i]

\* ---------------------------------------------------------------- backend
\* The page size of one response: the request's limit when given, cut to the
\* backend's own cap.
PageSize(limit) == IF limit = None THEN pageCap ELSE Min(limit[1], pageCap)

\* logs.get_log_events(nextToken, startFromHead, limit, ...): a token is a
\* position in the stream; without a token the read starts at the oldest event
\* (startFromHead) or at the last page; the forward token points behind the last
\* event returned, and is the submitted one when nothing lies behind it.
get_log_events(nextToken, startFromHead, limit) ==
    LET k == PageSize(limit)
        from == IF nextToken # None THEN nextToken[1]
                ELSE IF startFromHead THEN 0 ELSE Max(total - k, 0)
        to == Min(from + k, total)
    IN  [events |-> Range(from, to), nextForwardToken |-> Some(to)]

\* ------------------------------------------------------------- LogStream
Ops == {"head", "tail", "cat", "follow"}
\* (mutant: follow forgets forever=True)
foreverOff == FALSE
forever == op = "follow"
\* the limit each operation hands to iter_log_events
limit == IF op = "cat" THEN None ELSE arg
\* head and tail wrap the stream in take(n, ...)
Takes == op \in {"head", "tail"}
\* (mutant: take hands over one element too many)
TakeDoneLate == Takes /\ Len(out) > arg[1]
\* take(n, stream) is exhausted
TakeDone == Takes /\ Len(out) >= arg[1]

Args == (0..MaxArg) \cup {MaxN, MaxN + 1}

Init ==
    /\ op \in Ops
    /\ arg \in CASE op \in {"head", "tail"} -> {Some(n) : n \in Args}
               [] op = "cat" -> {None}
               [] OTHER -> {None} \cup {Some(n) : n \in 1..MaxArg}
    /\ start_at_top \in CASE op = "tail" -> {FALSE}
                        [] op = "follow" -> BOOLEAN
                        [] OTHER -> {TRUE}
    /\ total \in 0..MaxEvents
    /\ pageCap \in 1..MaxPage
    /\ pc = "start"
    /\ gen = "init"
    /\ token = None
    /\ response = [events |-> <<>>, nextForwardToken |-> None]
    /\ page = <<>>
    /\ out = <<>>
    /\ calls = <<>>
    /\ idles = 0
    /\ sleeps = 0
    /\ pulling = FALSE
    /\ err = "none"
    /\ stream_names = None
    /\ prefix = None
    /\ regex = <<>>
    /\ found = <<>>
    /\ lead = 0
    /\ events_by_job = <<>>
    /\ failures = 0
    /\ text = <<>>
    /\ pattern = ""
    /\ nstreams = 1
    /\ cur = 1
    /\ printed = <<>>

\* The caller asks the generator for its next element.
Pull ==
    /\ ~pulling
    /\ pc \in {"start", "run"}
    /\ pulling' = TRUE
    /\ UNCHANGED <<op, arg, start_at_top, total, pageCap, pc, gen, token,
                   response, page, out, calls, idles, sleeps, err>>
    /\ UNCHANGED <<fvars, failures, tvars, cvars>>

\* (mutant: the bound is off by one)
ValidatedLate == ~Takes \/ arg[1] <= MaxN + 1
\* head / tail: assert n <= 10_000
Validated == ~Takes \/ arg[1] <= MaxN

\* First resumption of head / tail / cat / follow: the body up to the first
\* pull from iter_log_events.
Start ==
    /\ pulling
    /\ pc = "start"
    /\ IF Validated
       THEN /\ pc' = "run"
            /\ UNCHANGED <<pulling, err>>
       ELSE /\ pc' = "failed"
            /\ err' = "AssertionError"
            /\ pulling' = FALSE
    /\ UNCHANGED <<op, arg, start_at_top, total, pageCap, gen, token,
                   response, page, out, calls, idles, sleeps>>
    /\ UNCHANGED <<fvars, failures, tvars, cvars>>

\* take(n, stream) has handed over n elements: head / tail end without
\* touching the stream again.
TakeStop ==
    /\ pulling
    /\ pc = "run"
    /\ TakeDone
    /\ pc' = "done"
    /\ pulling' = FALSE
    /\ UNCHANGED <<op, arg, start_at_top, total, pageCap, gen, token,
                   response, page, out, calls, idles, sleeps, err>>
    /\ UNCHANGED <<fvars, failures, tvars, cvars>>

\* concat / yield from page: the next event of the page in hand goes to the
\* caller.
YieldEvent ==
    /\ pulling
    /\ pc = "run"
    /\ ~TakeDone
    /\ page # <<>>
    /\ out' = Append(out, Head(page))
    /\ page' = Tail(page)
    /\ pulling' = FALSE
    /\ UNCHANGED <<op, arg, start_at_top, total, pageCap, pc, gen, token,
                   response, calls, idles, sleeps, err>>
    /\ UNCHANGED <<fvars, failures, tvars, cvars>>

\* iter_log_events from its start, or from the bottom of the loop, to
\* `yield map(LogEvent.from_raw, response["events"])`.
\* (mutant: the loop runs ahead of the caller, as a plain loop filling a
\* buffer would)
RunningAhead == TRUE
\* iter_log_events is a generator: its code runs only inside a next() of the
\* caller, from one yield to the next
Running == pulling

\* iter_log_events stands before its request: the caller's next() has run the
\* generators down to it, the page before is used up and take wants more
FetchReady ==
    /\ Running
    /\ pc = "run"
    /\ ~TakeDone
    /\ page = <<>>
    /\ gen \in {"init", "loop"}

Fetch ==
    /\ FetchReady
    /\ forever => Len(calls) < MaxFetches
    /\ LET r == get_log_events(token, start_at_top, limit)
       IN  /\ response' = r
           /\ page' = r.events
           /\ calls' = Append(calls, [sub |-> token,
                                      ret |-> r.nextForwardToken,
                                      events |-> r.events])
    /\ gen' = "page"
    /\ UNCHANGED <<op, arg, start_at_top, total, pageCap, pc, token, out,
                   idles, sleeps, pulling, err>>
    /\ UNCHANGED <<fvars, failures, tvars, cvars>>

\* (mutant: the error is swallowed and the request sent again)
FetchFailRetry ==
    /\ FetchReady
    /\ failures < 2
    /\ failures' = failures + 1
    /\ UNCHANGED <<svars, fvars, tvars, cvars>>
\* get_log_events raises (throttling, network, missing stream): nothing catches
\* it, the generators end with the exception.
FetchFail ==
    /\ FetchReady
    /\ failures' = failures + 1
    /\ pc' = "failed"
    /\ gen' = "done"
    /\ err' = "ClientError"
    /\ pulling' = FALSE
    /\ UNCHANGED <<op, arg, start_at_top, total, pageCap, token, response,
                   page, out, calls, idles, sleeps>>
    /\ UNCHANGED <<fvars, tvars, cvars>>

\* (mutant: the token is not taken over from the response)
NextTokenStale == token
\* the token iter_log_events carries into the next turn of its loop
NextToken == response.nextForwardToken

\* (mutant: an empty page is taken for the end of the data)
SameTokenEmpty == response.events = <<>>
\* if token == response["nextForwardToken"]
SameToken == token = response.nextForwardToken

\* iter_log_events resumed after the page was consumed: the token test.
\* Equal tokens end the iteration, or yield the idle marker when forever.
Check ==
    /\ Running
    /\ pc = "run"
    /\ ~TakeDone
    /\ page = <<>>
    /\ gen = "page"
    /\ IF SameToken
       THEN IF forever
            THEN /\ gen' = "idle"
                 /\ idles' = idles + 1
                 /\ UNCHANGED <<pc, pulling, token>>
            ELSE /\ gen' = "done"
                 /\ pc' = "done"
                 /\ pulling' = FALSE
                 /\ UNCHANGED <<idles, token>>
       ELSE /\ token' = NextToken
            /\ gen' = "loop"
            /\ UNCHANGED <<pc, pulling, idles>>
    /\ UNCHANGED <<op, arg, start_at_top, total, pageCap, response, page,
                   out, calls, sleeps, err>>
    /\ UNCHANGED <<fvars, failures, tvars, cvars>>

\* follow got None: time.sleep(interval); continue.  The generator resumes
\* after `yield None` with token = response["nextForwardToken"].
Sleep ==
    /\ Running
    /\ pc = "run"
    /\ gen = "idle"
    /\ sleeps' = sleeps + 1
    /\ token' = NextToken
    /\ gen' = "loop"
    /\ UNCHANGED <<op, arg, start_at_top, total, pageCap, pc, response,
                   page, out, calls, idles, pulling, err>>
    /\ UNCHANGED <<fvars, failures, tvars, cvars>>

\* The log stream grows while it is followed.
Grow ==
    /\ op = "follow"
    /\ total < MaxEvents
    /\ total' = total + 1
    /\ UNCHANGED <<op, arg, start_at_top, pageCap, pc, gen, token, response,
                   page, out, calls, idles, sleeps, pulling, err>>
    /\ UNCHANGED <<fvars, failures, tvars, cvars>>

Next ==
    \/ Pull
    \/ Start
    \/ TakeStop
    \/ YieldEvent
    \/ Fetch
    \/ FetchFail
    \/ Check
    \/ Sleep
    \/ Grow

vars == <<svars, fvars, failures, tvars, cvars>>

Spec == Init /\ [][Next]_vars

\* ======================================================== LogStreamFilter
MaxFound == 3       \* events the filter pattern selects
MaxFilterPage == 2  \* largest page of a filter response
MaxLead == 1        \* empty pages the backend may answer with first

StreamNames == {"s1", "s2"}
\* messages and regexes are texts, written as sequences of characters
Messages == {<<"a", "b">>, <<"b", "a", "b">>}
\* the events a search can select: s1 logs both messages, s2 the first
FilterEvents == {e \in [stream_name : StreamNames, message : Messages] :
                    e.stream_name = "s1" \/ e.message = <<"a", "b">>}
\* a(b)   ab   .(.)   (b [unbalanced]
Regexes == {<<"a", "(", "b", ")">>, <<"a", "b">>, <<".", "(", ".", ")">>,
            <<"(", "b">>}
FilterOps == {"iter_filter", "filter", "match", "find"}

\* ---------------------------------------------------------------- backend
\* the pages the backend cuts `found` into, after `lead` empty ones
NPages == lead + Max(1, (Len(found) + pageCap - 1) \div pageCap)

\* the event at position i of `found`, as LogFilterEvent.from_raw gives it
FilterEvent(i) == [stream_name |-> found[i].stream_name,
                   message |-> found[i].message,
                   event_id |-> i]

\* logs.filter_log_events(nextToken, ...): a token names the page to return;
\* nextToken comes with every page but the last.
filter_log_events(nextToken) ==
    LET idx == IF nextToken = None THEN 1 ELSE nextToken[1]
        from == Max(idx - lead - 1, 0) * pageCap
        to == IF idx <= lead THEN from ELSE Min(from + pageCap, Len(found))
    IN  [events |-> [i \in 1..(to - from) |-> FilterEvent(from + i)],
         nextToken |-> IF idx < NPages THEN Some(idx + 1) ELSE None]

\* --------------------------------------------------------------------- re
\* re.compile: the pattern's parentheses must balance
RECURSIVE Balanced(_, _, _)
Balanced(rx, i, depth) ==
    IF depth < 0 THEN FALSE
    ELSE IF i > Len(rx) THEN depth = 0
    ELSE Balanced(rx, i + 1,
                  depth + (CASE rx[i] = "(" -> 1 [] rx[i] = ")" -> -1
                           [] OTHER -> 0))
re_compile(rx) == Balanced(rx, 1, 0)

IsParen(c) == c \in {"(", ")"}
\* the characters the pattern matches, in order
Atoms(rx) == SelectSeq(rx, LAMBDA c : ~IsParen(c))
HasGroup(rx) == \E i \in 1..Len(rx) : rx[i] = "("
\* atoms in front of position i of the pattern
AtomsBefore(rx, i) == Len(Atoms(SubSeq(rx, 1, i - 1)))
FirstOpen(rx) == CHOOSE i \in 1..Len(rx) :
                    rx[i] = "(" /\ \A j \in 1..(i - 1) : rx[j] # "("
FirstClose(rx) == CHOOSE i \in 1..Len(rx) :
                    rx[i] = ")" /\ \A j \in 1..(i - 1) : rx[j] # ")"

\* the pattern matches msg at offset p (".": any character)
MatchAt(rx, msg, p) ==
    LET a == Atoms(rx)
    IN  /\ p + Len(a) <= Len(msg)
        /\ \A j \in 1..Len(a) : a[j] = "." \/ a[j] = msg[p + j]

\* the match object of a match at offset p: group(0) and, with a group in the
\* pattern, group(1)
MatchObject(rx, msg, p) ==
    [g0 |-> SubSeq(msg, p + 1, p + Len(Atoms(rx))),
     g1 |-> IF HasGroup(rx)
            THEN Some(SubSeq(msg, p + AtomsBefore(rx, FirstOpen(rx)) + 1,
                             p + AtomsBefore(rx, FirstClose(rx))))
            ELSE None]

\* re.match(regex, message): a match at position zero, or None
re_match(rx, msg) ==
    IF MatchAt(rx, msg, 0) THEN Some(MatchObject(rx, msg, 0)) ELSE None

\* re.findall(regex, message): the non-overlapping matches from the left;
\* each is the group's text when the pattern has a group, else the whole match
RECURSIVE FindFrom(_, _, _)
FindFrom(rx, msg, p) ==
    IF p + Len(Atoms(rx)) > Len(msg) THEN <<>>
    ELSE IF MatchAt(rx, msg, p)
         THEN LET m == MatchObject(rx, msg, p)
              IN  <<IF HasGroup(rx) THEN m.g1[1] ELSE m.g0>>
                  \o FindFrom(rx, msg, p + Len(Atoms(rx)))
         ELSE FindFrom(rx, msg, p + 1)
re_findall(rx, msg) == FindFrom(rx, msg, 0)

\* -------------------------------------------------------- LogStreamFilter
\* Python's stream_names != prefix: a list never equals a text or None
PyNotEqual(names, pfx) == ~(names = None /\ pfx = None)

\* (mutant: `or` where the assertion has `and`)
AssertOkOr ==
    stream_names = None \/ prefix = None \/ PyNotEqual(stream_names, prefix)
\* assert stream_names is None or prefix is None and stream_names != prefix
AssertOk ==
    stream_names = None
        \/ (prefix = None /\ PyNotEqual(stream_names, prefix))

\* (mutant: the regex is compiled when the operation is called)
StartErrorEager ==
    IF ~AssertOk THEN "AssertionError"
    ELSE IF op \in {"match", "find"} /\ ~re_compile(regex) THEN "re.error"
    ELSE "none"
\* what the operation raises before its first request
StartError == IF ~AssertOk THEN "AssertionError" ELSE "none"

\* (mutant: the first group is stored)
MatchValueGroup(m) == IF m.g1 = None THEN m.g0 ELSE m.g1[1]
\* match.group(0)
MatchValue(m) == m.g0

\* events_by_job is an insertion-ordered mapping: <<[key, vals]>>
Keys(d) == [i \in 1..Len(d) |-> d[i].key]
HasKey(d, k) == \E i \in 1..Len(d) : d[i].key = k
\* (mutant: a new key goes in front)
PutFront(d, k, v) ==
    IF HasKey(d, k)
    THEN [i \in 1..Len(d) |->
            IF d[i].key = k THEN [d[i] EXCEPT !.vals = Append(@, v)] ELSE d[i]]
    ELSE <<[key |-> k, vals |-> <<v>>]>> \o d
\* events_by_job[k].append(v) on a defaultdict(list)
Put(d, k, v) ==
    IF HasKey(d, k)
    THEN [i \in 1..Len(d) |->
            IF d[i].key = k THEN [d[i] EXCEPT !.vals = Append(@, v)] ELSE d[i]]
    ELSE Append(d, [key |-> k, vals |-> <<v>>])

\* the texts of `found` are drawn from FilterEvents
Founds == UNION {[1..k -> FilterEvents] : k \in 0..MaxFound}

InitFilter ==
    /\ op \in FilterOps
    /\ stream_names \in {None, Some(<<>>), Some(<<"s1", "s2">>)}
    /\ prefix \in {None, Some("s")}
    /\ regex \in IF op \in {"match", "find"} THEN Regexes ELSE {<<>>}
    /\ found \in Founds
    /\ lead \in 0..MaxLead
    /\ pageCap \in 1..MaxFilterPage
    /\ arg = None
    /\ start_at_top = TRUE
    /\ total = 0
    /\ pc = "start"
    /\ gen = "init"
    /\ token = None
    /\ response = [events |-> <<>>, nextToken |-> None]
    /\ page = <<>>
    /\ out = <<>>
    /\ calls = <<>>
    /\ idles = 0
    /\ sleeps = 0
    /\ pulling = (op # "iter_filter")
    /\ err = "none"
    /\ events_by_job = <<>>
    /\ failures = 0
    /\ text = <<>>
    /\ pattern = ""
    /\ nstreams = 1
    /\ cur = 1
    /\ printed = <<>>

\* what a LogStreamFilter never touches
sonly == <<arg, start_at_top, total, pageCap, idles, sleeps>>
fconf == <<op, stream_names, prefix, regex, found, lead>>

\* The caller of iter_filter asks for the next event.  filter, match and find
\* are plain calls: they run to their end once called.
FPull ==
    /\ op = "iter_filter"
    /\ ~pulling
    /\ pc \in {"start", "run"}
    /\ pulling' = TRUE
    /\ UNCHANGED <<pc, gen, token, response, page, out, calls, err,
                   events_by_job>>
    /\ UNCHANGED <<sonly, fconf, failures, tvars, cvars>>

\* iter_log_events up to its loop: the assertion on stream_names and prefix.
FStart ==
    /\ pulling
    /\ pc = "start"
    /\ IF StartError = "none"
       THEN /\ pc' = "run"
            /\ UNCHANGED <<pulling, err>>
       ELSE /\ pc' = "failed"
            /\ err' = StartError
            /\ pulling' = FALSE
    /\ UNCHANGED <<gen, token, response, page, out, calls, events_by_job>>
    /\ UNCHANGED <<sonly, fconf, failures, tvars, cvars>>

\* iter_log_events stands before its request
FFetchReady ==
    /\ Running
    /\ pc = "run"
    /\ page = <<>>
    /\ gen \in {"init", "loop"}

\* filter_log_events raises: nothing catches it, the operation ends with the
\* exception.
FFetchFail ==
    /\ FFetchReady
    /\ failures' = failures + 1
    /\ pc' = "failed"
    /\ gen' = "done"
    /\ err' = "ClientError"
    /\ pulling' = FALSE
    /\ UNCHANGED <<token, response, page, out, calls, events_by_job>>
    /\ UNCHANGED <<sonly, fconf, tvars, cvars>>

\* One turn of iter_log_events' loop up to its yield: the request, then
\* token = response.get("nextToken").
FFetch ==
    /\ FFetchReady
    /\ LET r == filter_log_events(token)
       IN  /\ response' = r
           /\ token' = r.nextToken
           /\ page' = r.events
           /\ calls' = Append(calls, [sub |-> token, ret |-> r.nextToken,
                                      events |-> r.events])
    /\ gen' = "page"
    /\ UNCHANGED <<pc, out, pulling, err, events_by_job>>
    /\ UNCHANGED <<sonly, fconf, failures, tvars, cvars>>

\* (mutant: an empty page is taken for the end of the search)
NoTokenEmptyPage == response.events = <<>>
\* if not token
NoToken == token = None

\* iter_log_events resumed after its page was consumed: `if not token: break`.
FCheck ==
    /\ Running
    /\ pc = "run"
    /\ page = <<>>
    /\ gen = "page"
    /\ IF NoToken
       THEN /\ gen' = "done"
            /\ pc' = "done"
            /\ pulling' = FALSE
       ELSE /\ gen' = "loop"
            /\ UNCHANGED <<pc, pulling>>
    /\ UNCHANGED <<token, response, page, out, calls, err, events_by_job>>
    /\ UNCHANGED <<sonly, fconf, failures, tvars, cvars>>

\* The body of the operation's loop for the next event of the page.
\*   iter_filter: the event is yielded to the caller
\*   filter: events_by_job[event.stream_name].append(event)
\*   match:  re.match; on a match, append match.group(0)
\*   find:   re.findall; with results, append results[0]
\* re.match and re.findall raise re.error for a regex that does not compile.
FEvent ==
    /\ pulling
    /\ pc = "run"
    /\ page # <<>>
    /\ LET event == Head(page)
       IN  CASE op = "iter_filter" ->
                 /\ out' = Append(out, event)
                 /\ page' = Tail(page)
                 /\ pulling' = FALSE
                 /\ UNCHANGED <<pc, err, events_by_job>>
            [] op = "filter" ->
                 /\ events_by_job' = Put(events_by_job, event.stream_name, event)
                 /\ page' = Tail(page)
                 /\ UNCHANGED <<pc, err, out, pulling>>
            [] op \in {"match", "find"} /\ ~re_compile(regex) ->
                 /\ pc' = "failed"
                 /\ err' = "re.error"
                 /\ pulling' = FALSE
                 /\ UNCHANGED <<page, out, events_by_job>>
            [] op = "match" /\ re_compile(regex) ->
                 LET match == re_match(regex, event.message)
                 IN  /\ events_by_job' =
                            IF match # None
                            THEN Put(events_by_job, event.stream_name,
                                     MatchValue(match[1]))
                            ELSE events_by_job
                     /\ page' = Tail(page)
                     /\ UNCHANGED <<pc, err, out, pulling>>
            [] op = "find" /\ re_compile(regex) ->
                 LET results == re_findall(regex, event.message)
                 IN  /\ events_by_job' =
                            IF results # <<>>
                            THEN Put(events_by_job, event.stream_name,
                                     results[1])
                            ELSE events_by_job
                     /\ page' = Tail(page)
                     /\ UNCHANGED <<pc, err, out, pulling>>
    /\ UNCHANGED <<gen, token, response, calls>>
    /\ UNCHANGED <<sonly, fconf, failures, tvars, cvars>>

NextFilter ==
    \/ FPull
    \/ FStart
    \/ FFetch
    \/ FFetchFail
    \/ FCheck
    \/ FEvent

SpecFilter == InitFilter /\ [][NextFilter]_vars

\* ============================================================= TextFilter
MaxText == 5        \* characters of a TextFilter's text

\* the characters of a text; "\n" ends a line
TextChars == {"a", "b", "c", "\n"}
Texts == UNION {[1..k -> TextChars] : k \in 0..MaxText}
Patterns == {"", "ERROR"}
\* a(b)   (b [unbalanced]
TextRegexes == {<<"a", "(", "b", ")">>, <<"(", "b">>}

\* str.splitlines(): the pieces between line ends; a line end at the very end
\* of the text opens no further line
RECURSIVE splitlines(_)
splitlines(t) ==
    IF t = <<>> THEN <<>>
    ELSE IF \E i \in 1..Len(t) : t[i] = "\n"
         THEN LET i == CHOOSE i \in 1..Len(t) :
                           t[i] = "\n" /\ \A j \in 1..(i - 1) : t[j] # "\n"
              IN  <<SubSeq(t, 1, i - 1)>> \o splitlines(SubSeq(t, i + 1, Len(t)))
         ELSE <<t>>

\* str(idx) of an index: its decimal digits
Digits == <<"0", "1", "2", "3", "4", "5", "6", "7", "8", "9">>
RECURSIVE str(_)
str(n) == IF n < 10 THEN <<Digits[n + 1]>>
          ELSE str(n \div 10) \o <<Digits[(n % 10) + 1]>>

\* (mutant: the lines are counted from one)
TextEventFromOne(idx, line) ==
    [message |-> line, timestamp |-> idx + 1, ingestion_time |-> idx + 1,
     stream_name |-> "", event_id |-> str(idx + 1)]
\* LogFilterEvent(message=line, timestamp=idx, ingestion_time=idx,
\*                stream_name="", event_id=str(idx))
TextEvent(idx, line) ==
    [message |-> line, timestamp |-> idx, ingestion_time |-> idx,
     stream_name |-> "", event_id |-> str(idx)]

\* the list TextFilter.iter_log_events yields: enumerate(text.splitlines())
TextPage ==
    LET lines == splitlines(text)
    IN  [i \in 1..Len(lines) |-> TextEvent(i - 1, lines[i])]

InitText ==
    /\ op \in FilterOps
    /\ text \in Texts
    /\ pattern \in Patterns
    /\ regex \in IF op \in {"match", "find"} THEN TextRegexes ELSE {<<>>}
    /\ stream_names = None
    /\ prefix = None
    /\ found = <<>>
    /\ lead = 0
    /\ pageCap = 1
    /\ arg = None
    /\ start_at_top = TRUE
    /\ total = 0
    /\ pc = "start"
    /\ gen = "init"
    /\ token = None
    /\ response = [events |-> <<>>, nextToken |-> None]
    /\ page = <<>>
    /\ out = <<>>
    /\ calls = <<>>
    /\ idles = 0
    /\ sleeps = 0
    /\ pulling = (op # "iter_filter")
    /\ err = "none"
    /\ events_by_job = <<>>
    /\ failures = 0
    /\ nstreams = 1
    /\ cur = 1
    /\ printed = <<>>

\* TextFilter.iter_log_events up to its only yield: the list of the events of
\* all lines.  The pattern and the limit are not read.
TStart ==
    /\ pulling
    /\ pc = "start"
    /\ page' = TextPage
    /\ pc' = "run"
    /\ gen' = "page"
    /\ UNCHANGED <<token, response, out, calls, pulling, err, events_by_job>>
    /\ UNCHANGED <<sonly, fconf, failures, tvars, cvars>>

\* TextFilter.iter_log_events resumed after its page: the generator returns
\* and the loop of the operation ends.
TEnd ==
    /\ pulling
    /\ pc = "run"
    /\ page = <<>>
    /\ gen = "page"
    /\ gen' = "done"
    /\ pc' = "done"
    /\ pulling' = FALSE
    /\ UNCHANGED <<token, response, page, out, calls, err, events_by_job>>
    /\ UNCHANGED <<sonly, fconf, failures, tvars, cvars>>

NextText ==
    \/ FPull
    \/ TStart
    \/ FEvent
    \/ TEnd

SpecText == InitText /\ [][NextText]_vars

\* ======================================================= cli: logs tail, cat
MaxStreams == 2     \* log streams of the resource

\* `logs tail [-n N] [-f] ARN` and `logs cat [-f] ARN`:
\*   tail      log.tail(n)
\*   tail -f   log.follow(limit=n, start_at_top=False, interval=interval)
\*   cat       log.cat()
\*   cat -f    log.follow(interval=interval)
InitCli ==
    /\ nstreams \in 1..MaxStreams
    /\ cur = 1
    /\ printed = <<>>
    /\ \/ /\ op \in {"tail", "follow"}
          /\ arg \in {Some(n) : n \in 1..MaxArg}
          /\ start_at_top = FALSE
       \/ /\ op \in {"cat", "follow"}
          /\ arg = None
          /\ start_at_top = TRUE
    /\ total \in 0..MaxEvents
    /\ pageCap \in 1..MaxPage
    /\ pc = "start"
    /\ gen = "init"
    /\ token = None
    /\ response = [events |-> <<>>, nextForwardToken |-> None]
    /\ page = <<>>
    /\ out = <<>>
    /\ calls = <<>>
    /\ idles = 0
    /\ sleeps = 0
    /\ pulling = FALSE
    /\ err = "none"
    /\ stream_names = None
    /\ prefix = None
    /\ regex = <<>>
    /\ found = <<>>
    /\ lead = 0
    /\ events_by_job = <<>>
    /\ failures = 0
    /\ text = <<>>
    /\ pattern = ""

\* for log in arn.logs: the stream's name is printed, the generator made, and
\* `for line in lines` asks for its first element.
CliOpen ==
    /\ ~pulling
    /\ pc = "start"
    /\ pulling' = TRUE
    /\ UNCHANGED <<op, arg, start_at_top, total, pageCap, pc, gen, token,
                   response, page, out, calls, idles, sleeps, err>>
    /\ UNCHANGED <<fvars, failures, tvars, cvars>>

\* click.echo(line), then the loop asks for the next element.
CliEcho ==
    /\ ~pulling
    /\ pc = "run"
    /\ printed' = Append(printed, <<cur, out[Len(out)]>>)
    /\ pulling' = TRUE
    /\ UNCHANGED <<op, arg, start_at_top, total, pageCap, pc, gen, token,
                   response, page, out, calls, idles, sleeps, err>>
    /\ UNCHANGED <<fvars, failures, tvars, nstreams, cur>>

\* The generator of one stream is exhausted: click.echo(), and the outer loop
\* goes on to the LogStream of the next stream, with its own events.
CliNextStream ==
    /\ pc = "done"
    /\ cur < nstreams
    /\ cur' = cur + 1
    /\ total' \in 0..MaxEvents
    /\ pc' = "start"
    /\ gen' = "init"
    /\ token' = None
    /\ response' = [events |-> <<>>, nextForwardToken |-> None]
    /\ page' = <<>>
    /\ out' = <<>>
    /\ calls' = <<>>
    /\ idles' = 0
    /\ sleeps' = 0
    /\ UNCHANGED <<op, arg, start_at_top, pageCap, pulling, err>>
    /\ UNCHANGED <<fvars, failures, tvars, nstreams, printed>>

NextCli ==
    \/ CliOpen
    \/ CliEcho
    \/ CliNextStream
    \/ Start
    \/ TakeStop
    \/ YieldEvent
    \/ Fetch
    \/ Check
    \/ Sleep
    \/ Grow

SpecCli == InitCli /\ [][NextCli]_vars

\* Both live sources: a LogStream operation or a LogStreamFilter operation.
InitSources == Init \/ InitFilter
NextSources ==
    \/ op \in Ops /\ Next
    \/ op \in FilterOps /\ NextFilter
SpecSources == InitSources /\ [][NextSources]_vars

\* ------------------------------------------------------------ properties
\* the pages of the first k responses, laid end to end
RECURSIVE Flatten(_, _)
Flatten(cs, k) == IF k = 0 THEN <<>> ELSE Flatten(cs, k - 1) \o cs[k].events

\* C1: head(n), run to its end on a static stream of `total` events, has
\* yielded exactly the oldest min(n, total) events, oldest first, whatever the
\* backend's page size.
C1_HeadYieldsOldest ==
    (op = "head" /\ pc = "done") => out = Range(0, Min(arg[1], total))

\* head(3) over 5 events served 2 per page has ended
C1_Witness ==
    /\ op = "head" /\ pc = "done"
    /\ arg = Some(3) /\ total = 5 /\ pageCap = 2
    /\ Len(calls) = 2 /\ Len(out) = 3

\* C2 (as claimed): tail(n), run to its end on a static stream, has yielded
\* exactly the most recent min(n, total) events in ascending order, also when
\* the backend serves fewer than n events per page.
C2_TailYieldsNewest ==
    (op = "tail" /\ pc = "done") =>
        out = Range(total - Min(arg[1], total), total)

\* C3: cat() yields the stream's events in stream order without a gap or a
\* repetition, and has yielded all of them when it ends.
C3_CatYieldsAll ==
    op = "cat" =>
        /\ out = Range(0, Len(out))
        /\ out \o page = Flatten(calls, Len(calls))
        /\ pc = "done" => out = Range(0, total)

\* cat() over 5 events served 2 per page has ended after 4 fetches
C3_Witness ==
    /\ op = "cat" /\ pc = "done"
    /\ total = 5 /\ pageCap = 2 /\ Len(calls) = 4 /\ Len(out) = 5

\* the responses whose token test has run
Checked == IF gen = "page" THEN Len(calls) - 1 ELSE Len(calls)
IdleCalls == {i \in 1..Checked : calls[i].sub = calls[i].ret}

\* C4: follow sleeps once for each idle marker, an idle marker stands for
\* each fetch that returned the submitted token and for no other, the next poll
\* submits the token the last one returned, every event of every page goes to
\* the caller in page order, and the events yielded are consecutive events of
\* the stream (none twice, none skipped).
C4_FollowSleepsOncePerIdle ==
    op = "follow" =>
        /\ idles = sleeps + (IF gen = "idle" THEN 1 ELSE 0)
        /\ idles = Cardinality(IdleCalls)
        /\ \A i \in 2..Len(calls) : calls[i].sub = calls[i - 1].ret
        /\ out \o page = Flatten(calls, Len(calls))
        /\ \A i \in 2..Len(out) : out[i] = out[i - 1] + 1
        /\ (start_at_top /\ out # <<>>) => out[1] = 1
        /\ (calls # <<>> /\ total > 0 /\ page = <<>> /\ out # <<>>) =>
               out[Len(out)] = calls[Len(calls)].ret[1]

\* follow slept twice, then the stream grew and the new events were yielded
C4_Witness ==
    /\ op = "follow" /\ sleeps >= 2 /\ Len(out) >= 3
    /\ \E i \in 2..Len(calls) :
          /\ calls[i - 1].sub = calls[i - 1].ret
          /\ calls[i].events # <<>>

\* C7: head(n) and tail(n) with n > 10000 end in a validation error on the
\* first pull, and no request is ever sent to the backend.
C7_TooManyFailsWithoutFetch ==
    (Takes /\ arg[1] > MaxN) =>
        /\ calls = <<>> /\ failures = 0 /\ out = <<>> /\ gen = "init"
        /\ pc \in {"start", "failed"}
        /\ pc = "failed" <=> err = "AssertionError"
        /\ pc = "start" => (~pulling \/ ENABLED Start)

\* tail(10001) has failed
C7_Witness ==
    /\ op = "tail" /\ arg = Some(MaxN + 1)
    /\ pc = "failed" /\ err = "AssertionError"

\* ------------------------------------------------- properties (filter)
\* every event the backend returned so far, in the order of its arrival
Returned == Flatten(calls, Len(calls))
\* the stream names of a sequence of events, each at its first appearance
RECURSIVE FirstSeen(_)
FirstSeen(es) ==
    IF es = <<>> THEN <<>>
    ELSE LET front == FirstSeen(SubSeq(es, 1, Len(es) - 1))
             name == es[Len(es)].stream_name
         IN  IF \E i \in 1..Len(front) : front[i] = name
             THEN front ELSE Append(front, name)
Of(es, name) == SelectSeq(es, LAMBDA e : e.stream_name = name)
\* f applied to each element of a sequence
MapSeq(f(_), es) == [i \in 1..Len(es) |-> f(es[i])]

\* C5: filter(pattern) reads the pages to the last one and returns a mapping
\* whose keys are the stream names in first-seen order and whose value for a
\* name is the events of that name in the order of their arrival, each event
\* returned by the backend exactly once.
C5_FilterGroupsEveryEvent ==
    (op = "filter" /\ pc = "done") =>
        /\ Len(calls) = NPages
        /\ calls[Len(calls)].ret = None
        /\ Len(Returned) = Len(found)
        /\ \A i \in 1..Len(found) : Returned[i] = FilterEvent(i)
        /\ Keys(events_by_job) = FirstSeen(Returned)
        /\ \A i \in 1..Len(events_by_job) :
              events_by_job[i].vals = Of(Returned, events_by_job[i].key)

\* filter has grouped s1, s2, s1 arriving on two pages or more
C5_Witness ==
    /\ op = "filter" /\ pc = "done" /\ Len(calls) >= 2
    /\ Len(found) = 3
    /\ Keys(events_by_job) = <<"s1", "s2">>
    /\ Len(events_by_job[1].vals) = 2

\* the events of a name that the regex matches at position zero
Matching(es, name) ==
    SelectSeq(Of(es, name), LAMBDA e : re_match(regex, e.message) # None)
\* the names with a matching event, in first-seen order
MatchedNames == FirstSeen(SelectSeq(Returned,
                    LAMBDA e : re_match(regex, e.message) # None))
FirstGroupOrAll(e) ==
    LET m == re_match(regex, e.message)[1]
    IN  IF m.g1 = None THEN m.g0 ELSE m.g1[1]
WholeMatch(e) == re_match(regex, e.message)[1].g0

\* C6 (as claimed): match stores, for each event matching at position zero,
\* the text of the first capture group, or the whole match when the regex has
\* no group; the other events are dropped.
C6_MatchStoresFirstGroup ==
    (op = "match" /\ pc = "done") =>
        /\ Keys(events_by_job) = MatchedNames
        /\ \A i \in 1..Len(events_by_job) :
              events_by_job[i].vals =
                  MapSeq(FirstGroupOrAll, Matching(Returned, events_by_job[i].key))

\* C6 (amended): match stores, for each event matching at position zero, the
\* whole matched text, group or no group; the other events are dropped.
C6_MatchStoresWholeMatch ==
    (op = "match" /\ pc = "done") =>
        /\ Keys(events_by_job) = MatchedNames
        /\ \A i \in 1..Len(events_by_job) :
              events_by_job[i].vals =
                  MapSeq(WholeMatch, Matching(Returned, events_by_job[i].key))

\* match with a(b) has kept "ab" for one event and dropped a "bab"
C6_Witness ==
    /\ op = "match" /\ pc = "done"
    /\ regex = <<"a", "(", "b", ")">>
    /\ \E i \in 1..Len(found) : found[i].message = <<"b", "a", "b">>
    /\ events_by_job # <<>>
    /\ events_by_job[1].vals[1] = <<"a", "b">>

BothGiven ==
    /\ stream_names # None /\ stream_names[1] # <<>>
    /\ prefix # None /\ prefix[1] # ""

\* C8: with a non-empty stream_names and a non-empty prefix every operation
\* ends in the assertion's error the first time it runs, and no request is
\* sent to the backend.
C8_BothGivenFailsWithoutFetch ==
    BothGiven =>
        /\ calls = <<>> /\ failures = 0 /\ out = <<>> /\ events_by_job = <<>>
        /\ pc \in {"start", "failed"}
        /\ pc = "failed" <=> err = "AssertionError"
        /\ pc = "start" => (~pulling \/ ENABLED FStart)

\* find on a source with both selectors has failed
C8_Witness ==
    /\ BothGiven /\ op = "find" /\ pc = "failed" /\ err = "AssertionError"
    /\ found # <<>>

\* C9 (as claimed): with neither stream_names nor prefix the operation is a
\* configuration error and no request is sent to the backend.
C9_NeitherGivenFailsWithoutFetch ==
    (stream_names = None /\ prefix = None) =>
        /\ calls = <<>>
        /\ pc \in {"start", "failed"}

\* C10 (as claimed): match and find with a regex that does not compile fail
\* before any request is sent to the backend.
C10_BadRegexFailsBeforeFetch ==
    (op \in {"match", "find"} /\ ~re_compile(regex)) =>
        /\ calls = <<>>
        /\ pc # "done"

\* C10 (amended): a regex that does not compile raises only when it is first
\* applied to an event: the error comes after the fetch of the first page that
\* holds an event, every page before it was empty, nothing was stored, and when
\* the backend returns no event at all the operation ends without an error.
C10_BadRegexFailsAtFirstEvent ==
    (op \in {"match", "find"} /\ regex = <<"(", "b">> /\ AssertOk) =>
        /\ events_by_job = <<>>
        /\ pc = "failed" <=> err \in {"re.error", "ClientError"}
        /\ err = "re.error" =>
              /\ calls # <<>>
              /\ calls[Len(calls)].events # <<>>
              /\ page = calls[Len(calls)].events
              /\ \A i \in 1..(Len(calls) - 1) : calls[i].events = <<>>
        /\ pc = "done" => (found = <<>> /\ Len(calls) = NPages)
        /\ (page # <<>> /\ pc = "run") => ENABLED FEvent

\* find with "(b" has failed on the first event, on the second page
C10_Witness ==
    /\ op = "find" /\ regex = <<"(", "b">>
    /\ pc = "failed" /\ err = "re.error" /\ Len(calls) = 2

\* ---------------------------------------------- properties (failures)
AfterFailure ==
    /\ failures <= 1
    /\ err = "ClientError" <=> failures = 1
    /\ failures = 1 =>
          /\ pc = "failed" /\ gen = "done" /\ ~pulling
          /\ op \in Ops => out = Flatten(calls, Len(calls))
FailureIsFinal ==
    failures = 1 =>
        /\ failures' = failures
        /\ calls' = calls /\ out' = out /\ events_by_job' = events_by_job
        /\ pc' = pc /\ err' = err

\* C11: a failed page fetch ends the operation with the backend's error: it
\* is not retried, no request follows it, and what head, tail, cat and follow
\* have yielded by then is exactly the events of the pages fetched before, and
\* stays so.
C11_FetchFailureIsTerminal == []AfterFailure /\ [][FailureIsFinal]_vars

\* cat failed on its third request, with two pages yielded
C11_Witness ==
    /\ op = "cat" /\ failures = 1 /\ pc = "failed"
    /\ Len(calls) = 2 /\ Len(out) = 4

\* --------------------------------------------------- properties (text)
ABC == <<"a", "\n", "b", "\n", "c">>
\* the events of a sequence that are well-formed events of the lines of the
\* text: line i has ordinal i - 1, written as text, and no stream name
LineEvents(es) ==
    /\ Len(es) = Len(splitlines(text))
    /\ \A i \in 1..Len(es) :
          /\ es[i].message = splitlines(text)[i]
          /\ es[i].event_id = str(i - 1)
          /\ es[i].stream_name = ""
TextDelivered ==
    /\ (op = "iter_filter" /\ pc # "start") => LineEvents(out \o page)
    /\ (op = "filter" /\ pc = "done") =>
          IF splitlines(text) = <<>> THEN events_by_job = <<>>
          ELSE /\ Keys(events_by_job) = <<"">>
               /\ LineEvents(events_by_job[1].vals)
    /\ (op = "filter" /\ pc = "done" /\ text = ABC) =>
          /\ Len(events_by_job) = 1
          /\ events_by_job[1].key = ""
          /\ MapSeq(LAMBDA e : e.event_id, events_by_job[1].vals)
                = << <<"0">>, <<"1">>, <<"2">> >>
          /\ MapSeq(LAMBDA e : e.message, events_by_job[1].vals)
                = << <<"a">>, <<"b">>, <<"c">> >>
    /\ calls = <<>> /\ failures = 0
\* a page is handed out only by the first run of iter_log_events
OnePage == Len(page') > Len(page) => (pc = "start" /\ pc' = "run")

\* C12: a TextFilter hands out one page, once, with one event per line of the
\* text in line order, event_id the zero-based ordinal as text and stream_name
\* empty; filter over "a\nb\nc" returns one group under "" with event_ids "0",
\* "1", "2" and messages "a", "b", "c", for every pattern.
C12_TextOnePagePerLine == []TextDelivered /\ [][OnePage]_vars

\* filter("ERROR") over "a\nb\nc" has ended
C12_Witness ==
    /\ op = "filter" /\ pc = "done" /\ text = ABC /\ pattern = "ERROR"
    /\ Len(events_by_job) = 1 /\ Len(events_by_job[1].vals) = 3

\* ------------------------------------------------ properties (iteration)
\* each request submits the token the one before returned, the first none
TokensChained ==
    /\ calls # <<>> => calls[1].sub = None
    /\ \A i \in 2..Len(calls) : calls[i].sub = calls[i - 1].ret
OnlyLastRepeats ==
    \A i \in 1..(Len(calls) - 1) : calls[i].sub # calls[i].ret

\* C13: without forever, iter_log_events of a LogStream ends exactly after a
\* fetch that returned the submitted token: it has not ended after a fetch
\* that returned another one, no fetch follows the first that returned its
\* own, and each fetch submits the token of the one before.
C13_StreamEndsOnRepeatedToken ==
    (op \in {"head", "tail", "cat"}) =>
        /\ TokensChained
        /\ OnlyLastRepeats
        /\ (gen = "done" /\ failures = 0) =>
              /\ calls # <<>>
              /\ calls[Len(calls)].sub = calls[Len(calls)].ret
        /\ (calls # <<>> /\ calls[Len(calls)].sub = calls[Len(calls)].ret) =>
              gen \in {"page", "done"}
        /\ (gen = "page" /\ pulling /\ page = <<>> /\ ~TakeDone) =>
              ENABLED Check

\* cat over 4 events served 2 per page has ended after its third fetch
C13_Witness ==
    /\ op = "cat" /\ gen = "done" /\ failures = 0
    /\ total = 4 /\ pageCap = 2 /\ Len(calls) = 3
    /\ calls[2].sub # calls[2].ret

\* C14: iter_log_events of a LogStreamFilter ends exactly after a response
\* without a token: every response before the last carried a token, which the
\* next request submitted, no request follows the first response without one,
\* and the page of that response is delivered like the others.
C14_FilterEndsOnMissingToken ==
    (op \in FilterOps) =>
        /\ TokensChained
        /\ \A i \in 1..(Len(calls) - 1) : calls[i].ret # None
        /\ (gen = "done" /\ failures = 0) =>
              /\ Len(calls) = NPages
              /\ calls[Len(calls)].ret = None
              /\ page = <<>>
              /\ op = "iter_filter" => out = Returned
        /\ (calls # <<>> /\ calls[Len(calls)].ret = None) =>
              gen \in {"page", "done"}
        /\ (gen = "page" /\ pulling /\ page = <<>> /\ pc = "run") =>
              ENABLED FCheck

\* iter_filter has ended after an empty page and two pages of one event
C14_Witness ==
    /\ op = "iter_filter" /\ pc = "done" /\ failures = 0
    /\ lead = 1 /\ Len(calls) = 3 /\ Len(out) = 2
    /\ calls[3].events # <<>>

\* C15: follow never ends by itself: unless a fetch fails it is never done,
\* while the caller pulls there is a next step, an idle marker is yielded for
\* each fetch that returned the submitted token and for no other, and the
\* fetch after an idle marker submits that token again.
C15_FollowNeverEnds ==
    op = "follow" =>
        /\ pc # "done"
        /\ (gen = "done" \/ pc = "failed") => failures = 1
        /\ idles = Cardinality(IdleCalls)
        /\ \A i \in 1..(Len(calls) - 1) :
              calls[i].sub = calls[i].ret => calls[i + 1].sub = calls[i].sub
        /\ (pulling /\ pc = "run" /\ Len(calls) < MaxFetches) =>
              \/ ENABLED Fetch
              \/ ENABLED Check
              \/ ENABLED Sleep
              \/ ENABLED YieldEvent

\* follow is still running after three idle markers
C15_Witness ==
    /\ op = "follow" /\ pc = "run" /\ failures = 0
    /\ idles >= 3 /\ sleeps >= 3 /\ out # <<>>

OnePageHeld ==
    op \in Ops =>
        /\ out \o page = Flatten(calls, Len(calls))
        /\ calls = <<>> => page = <<>>
        /\ calls # <<>> => Len(page) <= Len(calls[Len(calls)].events)
FetchOnPull ==
    (calls' # calls \/ failures' # failures) =>
        /\ pulling
        /\ page = <<>>
        /\ op \in {"head", "tail"} => Len(out) < arg[1]
        /\ out = Flatten(calls, Len(calls))

\* C16: head, tail, cat and follow send a request only while the caller
\* waits for an element, only when every event of the pages fetched so far has
\* been handed over, and never once take(n) has handed over its n events; only
\* the rest of the last page is held.
C16_PullDriven == []OnePageHeld /\ [][FetchOnPull]_vars

\* head(3) has ended with an event of its second page left unread
C16_Witness ==
    /\ op = "head" /\ pc = "done" /\ arg = Some(3)
    /\ Len(calls) = 2 /\ Len(page) = 1 /\ total = 5

\* ---------------------------------------------------- properties (cli)
\* C17: `logs tail -f` and `logs cat -f` on a resource with two log streams
\* or more stay at the first stream for ever: follow is never exhausted, so the
\* requests sent and the lines printed are all of the first stream.
C17_FollowStaysOnFirstStream ==
    (op = "follow" /\ nstreams >= 2) =>
        /\ cur = 1
        /\ pc # "done"
        /\ \A i \in 1..Len(printed) : printed[i][1] = 1
        /\ ~ENABLED CliNextStream

\* tail -f on two streams has idled twice on the first and printed its lines
C17_Witness ==
    /\ op = "follow" /\ ~start_at_top /\ nstreams >= 2 /\ cur = 1
    /\ idles >= 2 /\ Len(printed) >= 2 /\ Len(calls) >= 4

====
